---- MODULE Spec2Model ----
(***************************************************************************)
(* Model of src/src/PathfindingVisualizer.jsx: the MinHeap class, the two  *)
(* tracers dijkstra() and bellmanFord(), and the React component's state   *)
(* with its event handlers.                                                *)
(*                                                                         *)
(* Conventions                                                             *)
(*  - JS arrays are sequences; a JS index i is position i + 1.             *)
(*  - A node is modelled by its id alone: the x/y position only decides    *)
(*    which node a click hits, and a click is an input of the handlers.    *)
(*  - null is the string "null"; node ids are the strings `N${k}`.         *)
(*  - Infinity is a number larger than every finite path weight the        *)
(*    bounded inputs can produce; it is only ever compared, never added.   *)
(*  - A JS object used as a map (distances, previous) is a function whose  *)
(*    DOMAIN is its key set; reading a missing key gives undefined, which  *)
(*    the operators Lt and NotInfinity treat as JS does.                   *)
(*  - The `message` field of a step is display text and is not modelled.   *)
(*  - The edge key `${from}-${to}` is the pair <<from, to>>: the template  *)
(*    is injective on ids of the form N<k>.                                *)
(***************************************************************************)
EXTENDS Integers, Sequences, FiniteSets, TLC

VARIABLES nodes, edges, sourceNode, destNode, algorithm, isAnimating,
          currentStep, steps, mode, connectingFrom, showWeightModal,
          direction, weightInput, pendingEdge,
          minHeap,  \* this.heap of a MinHeap instance used on its own
          lastPop,  \* what the last pop() on that instance returned
          run       \* the locals of a dijkstra() call that is under way

vars == <<nodes, edges, sourceNode, destNode, algorithm, isAnimating,
          currentStep, steps, mode, connectingFrom, showWeightModal,
          direction, weightInput, pendingEdge, minHeap, lastPop, run>>

\* the React state of the component
uiVars == <<nodes, edges, sourceNode, destNode, algorithm, isAnimating,
            currentStep, steps, mode, connectingFrom, showWeightModal,
            direction, weightInput, pendingEdge>>

\* the state below the component: a MinHeap instance and a dijkstra() frame
callVars == <<minHeap, lastPop, run>>

null == "null"

Infinity == 1000000

\* pendingEdge === null (a record, so that it compares with {from, to})
NoEdge == [from |-> null, to |-> null]

\* the null that pop() returns (a record, so that it compares with
\* {node, priority})
NoEntry == [node |-> null, priority |-> 0]

\* no dijkstra() call is under way
NoRun == [pc |-> "idle"]

\* a fresh MinHeap (constructor: this.heap = []), nothing popped, no call
NoCall == minHeap = <<>> /\ lastPop = NoEntry /\ run = NoRun

\* ------------------------------------------------------------------------
\* Small helpers for JS arrays and objects
\* ------------------------------------------------------------------------

\* Array.prototype.includes / Set.prototype.has on an insertion-ordered list
Has(seq, x) == \E i \in 1..Len(seq) : seq[i] = x

\* obj[key] = value (adds the key when it is missing)
SetKey(obj, key, value) ==
  [k \in (DOMAIN obj) \cup {key} |-> IF k = key THEN value ELSE obj[k]]

\* fault injection for Lt: `!==` written for `<`
Lt_NotEqual(alt, obj, key) == key \in DOMAIN obj /\ alt # obj[key]

\* fault injection for Lt: `<=` written for `<`
Lt_OrEqual(alt, obj, key) == key \in DOMAIN obj /\ alt <= obj[key]

\* `alt < obj[key]` where alt is a finite number: false when obj[key] is undefined
Lt(alt, obj, key) == key \in DOMAIN obj /\ alt < obj[key]

\* `${from}-${to}`
EdgeKey(from, to) == <<from, to>>

\* the set of ids of a node list
NodeIds(nodeList) == {nodeList[i] : i \in 1..Len(nodeList)}

\* ------------------------------------------------------------------------
\* class MinHeap (this.heap is the sequence `heap`)
\* ------------------------------------------------------------------------

Swap(heap, i, j) ==
  [heap EXCEPT ![i + 1] = heap[j + 1], ![j + 1] = heap[i + 1]]

\* fault injection for bubbleUp: the pushed entry is left where it was appended
bubbleUp_NoSift(heap, index) == heap

RECURSIVE bubbleUp(_, _)
bubbleUp(heap, index) ==
  IF index > 0
    THEN LET parentIndex == (index - 1) \div 2
         IN IF heap[parentIndex + 1].priority <= heap[index + 1].priority
              THEN heap
              ELSE bubbleUp(Swap(heap, parentIndex, index), parentIndex)
    ELSE heap

\* fault injection for bubbleDown: only the left child is compared
RECURSIVE bubbleDown_LeftOnly(_, _)
bubbleDown_LeftOnly(heap, index) ==
  LET leftChild == 2 * index + 1
      smallest == IF leftChild < Len(heap)
                     /\ heap[leftChild + 1].priority < heap[index + 1].priority
                    THEN leftChild ELSE index
  IN IF smallest = index
       THEN heap
       ELSE bubbleDown_LeftOnly(Swap(heap, smallest, index), smallest)

RECURSIVE bubbleDown(_, _)
bubbleDown(heap, index) ==
  LET leftChild == 2 * index + 1
      rightChild == 2 * index + 2
      s1 == IF leftChild < Len(heap)
               /\ heap[leftChild + 1].priority < heap[index + 1].priority
              THEN leftChild ELSE index
      smallest == IF rightChild < Len(heap)
                     /\ heap[rightChild + 1].priority < heap[s1 + 1].priority
                    THEN rightChild ELSE s1
  IN IF smallest = index
       THEN heap
       ELSE bubbleDown(Swap(heap, smallest, index), smallest)

\* push(node, priority): the heap after the call
push(heap, node, priority) ==
  bubbleUp(Append(heap, [node |-> node, priority |-> priority]), Len(heap))

\* pop(): [result |-> the returned value, heap |-> the heap after the call]
pop(heap) ==
  IF Len(heap) = 0 THEN [result |-> NoEntry, heap |-> heap]
  ELSE IF Len(heap) = 1 THEN [result |-> heap[1], heap |-> <<>>]
  ELSE LET min == heap[1]
           last == heap[Len(heap)]
           shorter == SubSeq(heap, 1, Len(heap) - 1)
       IN [result |-> min,
           heap |-> bubbleDown([shorter EXCEPT ![1] = last], 0)]

isEmpty(heap) == Len(heap) = 0

getAll(heap) ==
  [i \in 1..Len(heap) |-> [node |-> heap[i].node, distance |-> heap[i].priority]]

\* ------------------------------------------------------------------------
\* Shared by both tracers
\* ------------------------------------------------------------------------

\* nodes.forEach(node => { distances[node.id] = Infinity; previous[node.id] = null })
\* followed by distances[source] = 0
InitDistances(nodeList, source) ==
  SetKey([id \in NodeIds(nodeList) |-> Infinity], source, 0)

InitPrevious(nodeList) == [id \in NodeIds(nodeList) |-> null]

\* while (curr !== null) { path.unshift(curr); curr = previous[curr]; }
\* (previous[curr] of a missing key is undefined, which is !== null and whose
\* own lookup is undefined again: that loop never ends, so the operator is
\* defined only on the chains the tracers build, whose keys are all present)
\* fault injection for WalkBack: path.push(curr) written for path.unshift(curr)
RECURSIVE WalkBack_Push(_, _, _)
WalkBack_Push(previous, curr, path) ==
  IF curr = null THEN path
  ELSE WalkBack_Push(previous, previous[curr], path \o <<curr>>)

RECURSIVE WalkBack(_, _, _)
WalkBack(previous, curr, path) ==
  IF curr = null THEN path
  ELSE WalkBack(previous, previous[curr], <<curr>> \o path)

\* fault injection for PathEdges: each key is written `${path[i+1]}-${path[i]}`
PathEdges_Reversed(path) ==
  [i \in 1..(IF Len(path) = 0 THEN 0 ELSE Len(path) - 1) |->
     EdgeKey(path[i + 1], path[i])]

\* for (i = 0; i < path.length - 1; i++) pathEdges.push(`${path[i]}-${path[i+1]}`)
PathEdges(path) ==
  [i \in 1..(IF Len(path) = 0 THEN 0 ELSE Len(path) - 1) |->
     EdgeKey(path[i], path[i + 1])]

\* ------------------------------------------------------------------------
\* dijkstra(nodes, edges, source, dest)
\* The working state is the record
\*   [steps, distances, previous, permanent, heap]
\* permanent is the JS Set in insertion order.
\* ------------------------------------------------------------------------

\* fault injection for PermanentArray: the node added last is left out
PermanentArray_Stale(permanent, distances) ==
  [i \in 1..(IF Len(permanent) = 0 THEN 0 ELSE Len(permanent) - 1) |->
     [node |-> permanent[i], distance |-> distances[permanent[i]]]]

\* Array.from(permanent).map(nodeId => ({node: nodeId, distance: distances[nodeId]}))
PermanentArray(permanent, distances) ==
  [i \in 1..Len(permanent) |->
     [node |-> permanent[i], distance |-> distances[permanent[i]]]]

\* edges.filter(e => e.from === current).map(e => ({to: e.to, weight: e.weight}))
Neighbors(edgeList, current) ==
  LET out == SelectSeq(edgeList, LAMBDA e : e.from = current)
  IN [i \in 1..Len(out) |-> [to |-> out[i].to, weight |-> out[i].weight]]

\* edges.filter(e => e.from === current && !permanent.has(e.to)).map(key)
ExploringEdges(edgeList, current, permanent) ==
  LET out == SelectSeq(edgeList,
                       LAMBDA e : e.from = current /\ ~Has(permanent, e.to))
  IN [i \in 1..Len(out) |-> EdgeKey(out[i].from, out[i].to)]

DijkstraStart(nodeList, source) ==
  LET distances == InitDistances(nodeList, source)
      previous == InitPrevious(nodeList)
  IN [steps |-> << [type |-> "init",
                    distances |-> distances,
                    previous |-> previous,
                    current |-> null,
                    permanent |-> <<>>,
                    tentative |-> << [node |-> source, distance |-> 0] >>,
                    activeEdges |-> <<>>] >>,
      distances |-> distances,
      previous |-> previous,
      permanent |-> <<>>,
      heap |-> push(<<>>, source, 0)]

\* one callback of neighbors.forEach(({to, weight}) => {...})
RelaxNeighbor(st, current, nb, permanentArray, tentativeArray) ==
  IF Has(st.permanent, nb.to) THEN st
  ELSE LET alt == st.distances[current] + nb.weight
       IN IF Lt(alt, st.distances, nb.to)
            THEN LET distances == SetKey(st.distances, nb.to, alt)
                     previous == SetKey(st.previous, nb.to, current)
                     heap == push(st.heap, nb.to, alt)
                 IN [st EXCEPT
                       !.distances = distances,
                       !.previous = previous,
                       !.heap = heap,
                       !.steps = Append(@, [type |-> "update",
                                            distances |-> distances,
                                            previous |-> previous,
                                            current |-> current,
                                            permanent |-> permanentArray,
                                            tentative |-> getAll(heap),
                                            updated |-> nb.to,
                                            activeEdges |-> <<EdgeKey(current, nb.to)>>])]
            ELSE [st EXCEPT
                    !.steps = Append(@, [type |-> "no-update",
                                         distances |-> st.distances,
                                         previous |-> st.previous,
                                         current |-> current,
                                         permanent |-> permanentArray,
                                         tentative |-> tentativeArray,
                                         activeEdges |-> <<EdgeKey(current, nb.to)>>])]

RECURSIVE RelaxAll(_, _, _, _, _, _)
RelaxAll(st, current, neighbors, permanentArray, tentativeArray, i) ==
  IF i > Len(neighbors) THEN st
  ELSE RelaxAll(RelaxNeighbor(st, current, neighbors[i], permanentArray, tentativeArray),
                current, neighbors, permanentArray, tentativeArray, i + 1)

\* the `if (current === dest) break;` of the main loop
EarlyTermination(current, dest) == current = dest

\* permanent.add(current) and the `extract` step; rest is the heap after pop()
ExtractMin(st, rest, current, edgeList) ==
  LET permanent == Append(st.permanent, current)
      neighbors == Neighbors(edgeList, current)
  IN [st EXCEPT
        !.heap = rest,
        !.permanent = permanent,
        !.steps = Append(@, [type |-> "extract",
                             distances |-> st.distances,
                             previous |-> st.previous,
                             current |-> current,
                             permanent |-> PermanentArray(permanent, st.distances),
                             tentative |-> getAll(rest),
                             neighbors |-> [i \in 1..Len(neighbors) |-> neighbors[i].to],
                             activeEdges |-> ExploringEdges(edgeList, current, permanent)])]

\* while (!minHeap.isEmpty()) { ... }
RECURSIVE DijkstraLoop(_, _, _)
DijkstraLoop(st, edgeList, dest) ==
  IF isEmpty(st.heap) THEN st
  ELSE
    LET popped == pop(st.heap)
        current == popped.result.node
    IN IF Has(st.permanent, current)
         THEN DijkstraLoop([st EXCEPT !.heap = popped.heap], edgeList, dest)
         ELSE
           LET extracted == ExtractMin(st, popped.heap, current, edgeList)
               permanentArray == PermanentArray(extracted.permanent, st.distances)
               tentativeArray == getAll(popped.heap)
               neighbors == Neighbors(edgeList, current)
           IN IF EarlyTermination(current, dest)
                THEN extracted
                ELSE DijkstraLoop(RelaxAll(extracted, current, neighbors,
                                           permanentArray, tentativeArray, 1),
                                  edgeList, dest)

\* fault injection for DijkstraComplete: the `complete` step is not pushed
DijkstraComplete_NoStep(st, dest) == st.steps

\* fault injection for DijkstraComplete: the reconstructed path is stored
\* without the `distances[dest] !== Infinity` test
DijkstraComplete_RawPath(st, dest) ==
  LET path == WalkBack(st.previous, dest, <<>>)
  IN Append(st.steps,
            [type |-> "complete",
             distances |-> st.distances,
             previous |-> st.previous,
             path |-> path,
             permanent |-> PermanentArray(st.permanent, st.distances),
             tentative |-> <<>>,
             activeEdges |-> PathEdges(path)])

\* path reconstruction and the `complete` step
DijkstraComplete(st, dest) ==
  LET path == WalkBack(st.previous, dest, <<>>)
  IN Append(st.steps,
            [type |-> "complete",
             distances |-> st.distances,
             previous |-> st.previous,
             path |-> IF st.distances[dest] # Infinity THEN path ELSE <<>>,
             permanent |-> PermanentArray(st.permanent, st.distances),
             tentative |-> <<>>,
             activeEdges |-> PathEdges(path)])

dijkstra(nodeList, edgeList, source, dest) ==
  DijkstraComplete(DijkstraLoop(DijkstraStart(nodeList, source), edgeList, dest), dest)

\* ------------------------------------------------------------------------
\* bellmanFord(nodes, edges, source, dest)
\* The working state is the record [steps, distances, previous, updated].
\* ------------------------------------------------------------------------

\* `distances[id] !== Infinity` (true for an id that is not a key: undefined)
NotInfinity(distances, id) == id \notin DOMAIN distances \/ distances[id] # Infinity

\* fault injection for CanRelax: the edge weight is left out of the sum
CanRelax_NoWeight(distances, edge) ==
  /\ edge.from \in DOMAIN distances
  /\ Lt(distances[edge.from], distances, edge.to)

\* `distances[edge.from] + edge.weight < distances[edge.to]`; with either side
\* undefined the sum is NaN or the bound is undefined and the test is false
CanRelax(distances, edge) ==
  /\ edge.from \in DOMAIN distances
  /\ Lt(distances[edge.from] + edge.weight, distances, edge.to)

BellmanFordStart(nodeList, edgeList, source) ==
  LET distances == InitDistances(nodeList, source)
      previous == InitPrevious(nodeList)
  IN [steps |-> << [type |-> "show-edges",
                    distances |-> distances,
                    previous |-> previous,
                    iteration |-> 0,
                    edges |-> edgeList,
                    activeEdges |-> <<>>],
                   [type |-> "init",
                    distances |-> distances,
                    previous |-> previous,
                    iteration |-> 0,
                    activeEdges |-> <<>>] >>,
      distances |-> distances,
      previous |-> previous,
      updated |-> FALSE]

\* one callback of edges.forEach((edge, edgeIndex) => {...}) in pass i + 1
RelaxEdge(st, edge, edgeNumber, iteration) ==
  LET activeEdge == <<EdgeKey(edge.from, edge.to)>>
  IN IF NotInfinity(st.distances, edge.from)
       THEN IF CanRelax(st.distances, edge)
              THEN LET alt == st.distances[edge.from] + edge.weight
                       distances == SetKey(st.distances, edge.to, alt)
                       previous == SetKey(st.previous, edge.to, edge.from)
                   IN [st EXCEPT
                         !.distances = distances,
                         !.previous = previous,
                         !.updated = TRUE,
                         !.steps = Append(@, [type |-> "update",
                                              distances |-> distances,
                                              previous |-> previous,
                                              iteration |-> iteration,
                                              edge |-> edge,
                                              edgeNumber |-> edgeNumber,
                                              activeEdges |-> activeEdge])]
              ELSE [st EXCEPT
                      !.steps = Append(@, [type |-> "no-update",
                                           distances |-> st.distances,
                                           previous |-> st.previous,
                                           iteration |-> iteration,
                                           edge |-> edge,
                                           edgeNumber |-> edgeNumber,
                                           activeEdges |-> activeEdge])]
       ELSE [st EXCEPT
               !.steps = Append(@, [type |-> "skip",
                                    distances |-> st.distances,
                                    previous |-> st.previous,
                                    iteration |-> iteration,
                                    edge |-> edge,
                                    edgeNumber |-> edgeNumber,
                                    activeEdges |-> activeEdge])]

RECURSIVE RelaxEdges(_, _, _, _)
RelaxEdges(st, edgeList, edgeIndex, iteration) ==
  IF edgeIndex >= Len(edgeList) THEN st
  ELSE RelaxEdges(RelaxEdge(st, edgeList[edgeIndex + 1], edgeIndex + 1, iteration),
                  edgeList, edgeIndex + 1, iteration)

\* fault injection for PassLimit: one pass too many
PassLimit_OneMore(nodeList) == Len(nodeList)

\* fault injection for PassLimit: one pass too few
PassLimit_OneShort(nodeList) == Len(nodeList) - 2

\* the number of passes the for loop allows: i < nodes.length - 1
PassLimit(nodeList) == Len(nodeList) - 1

\* for (let i = 0; i < nodes.length - 1; i++) { ... if (!updated) break; }
RECURSIVE BellmanFordPasses(_, _, _, _)
BellmanFordPasses(st, nodeList, edgeList, i) ==
  IF i < PassLimit(nodeList)
    THEN LET started ==
               [st EXCEPT
                  !.updated = FALSE,
                  !.steps = Append(@, [type |-> "iteration-start",
                                       distances |-> st.distances,
                                       previous |-> st.previous,
                                       iteration |-> i + 1,
                                       activeEdges |-> <<>>])]
             relaxed == RelaxEdges(started, edgeList, 0, i + 1)
             ended ==
               [relaxed EXCEPT
                  !.steps = Append(@, [type |-> "iteration-end",
                                       distances |-> relaxed.distances,
                                       previous |-> relaxed.previous,
                                       iteration |-> i + 1,
                                       activeEdges |-> <<>>,
                                       updated |-> relaxed.updated])]
         IN IF ~relaxed.updated THEN ended
            ELSE BellmanFordPasses(ended, nodeList, edgeList, i + 1)
    ELSE st

\* the scan after the passes: negativeCycleEdge is the LAST edge that can
\* still be relaxed, null when there is none (hasNegativeCycle false)
NegativeCycleEdge(distances, edgeList) ==
  LET hits == {k \in 1..Len(edgeList) :
                 /\ NotInfinity(distances, edgeList[k].from)
                 /\ CanRelax(distances, edgeList[k])}
  IN IF hits = {} THEN null
     ELSE edgeList[CHOOSE k \in hits : \A j \in hits : j <= k]

HasNegativeCycle(distances, edgeList) ==
  \E k \in 1..Len(edgeList) :
     /\ NotInfinity(distances, edgeList[k].from)
     /\ CanRelax(distances, edgeList[k])

BellmanFordFinish(st, edgeList, dest) ==
  IF HasNegativeCycle(st.distances, edgeList)
    THEN LET negativeCycleEdge == NegativeCycleEdge(st.distances, edgeList)
         IN Append(st.steps,
                   [type |-> "negative-cycle",
                    distances |-> st.distances,
                    previous |-> st.previous,
                    activeEdges |-> <<EdgeKey(negativeCycleEdge.from,
                                              negativeCycleEdge.to)>>])
    ELSE LET path == WalkBack(st.previous, dest, <<>>)
         IN Append(st.steps,
                   [type |-> "complete",
                    distances |-> st.distances,
                    previous |-> st.previous,
                    path |-> IF st.distances[dest] # Infinity THEN path ELSE <<>>,
                    activeEdges |-> PathEdges(path)])

bellmanFord(nodeList, edgeList, source, dest) ==
  BellmanFordFinish(
    BellmanFordPasses(BellmanFordStart(nodeList, edgeList, source),
                      nodeList, edgeList, 0),
    edgeList, dest)

\* ------------------------------------------------------------------------
\* Bounds and input sets
\* ------------------------------------------------------------------------

\* `N${k}`
IdNames == <<"N0", "N1", "N2", "N3", "N4", "N5", "N6", "N7">>
NodeId(k) == IdNames[k + 1]

\* tracer inputs: node lists N0..N(k-1) with 1 <= k <= MaxTraceNodes, edge
\* lists of at most MaxTraceEdges edges with weights in TraceWeights, parallel
\* edges and negative self-loops included. A self-loop of weight >= 0 is left
\* out: dijkstra() skips it (its target is already permanent) and in
\* bellmanFord() it can never relax (distance + w < distance is false).
MaxTraceNodes == 3
MaxTraceEdges == 3
TraceWeights == {-2, 0, 1, 3}

SeqsUpTo(S, n) == UNION {[1..k -> S] : k \in 0..n}

TraceNodeLists == {[i \in 1..k |-> NodeId(i - 1)] : k \in 1..MaxTraceNodes}

TraceEdgeLists(nodeList) ==
  SeqsUpTo({e \in [from : NodeIds(nodeList), to : NodeIds(nodeList), weight : TraceWeights] :
              e.from # e.to \/ e.weight < 0},
           MaxTraceEdges)

\* ------------------------------------------------------------------------
\* TraceSpec: the two tracers as pure functions of their four arguments.
\* The arguments are drawn in the initial state; the selected tracer is
\* called once and its return value kept in `steps`.
\* ------------------------------------------------------------------------

TraceInit ==
  /\ NoCall
  /\ nodes \in TraceNodeLists
  /\ edges \in TraceEdgeLists(nodes)
  /\ sourceNode \in NodeIds(nodes)
  /\ destNode \in NodeIds(nodes)
  /\ algorithm \in {"dijkstra", "bellman-ford"}
  /\ steps = <<>>
  /\ isAnimating = FALSE
  /\ currentStep = 0
  /\ mode = "add"
  /\ connectingFrom = null
  /\ showWeightModal = FALSE
  /\ direction = "uni"
  /\ weightInput = <<"1">>
  /\ pendingEdge = NoEdge

CallDijkstra ==
  /\ UNCHANGED callVars
  /\ algorithm = "dijkstra"
  /\ steps = <<>>
  /\ steps' = dijkstra(nodes, edges, sourceNode, destNode)
  /\ UNCHANGED <<nodes, edges, sourceNode, destNode, algorithm, isAnimating,
                 currentStep, mode, connectingFrom, showWeightModal,
                 direction, weightInput, pendingEdge>>

CallBellmanFord ==
  /\ UNCHANGED callVars
  /\ algorithm = "bellman-ford"
  /\ steps = <<>>
  /\ steps' = bellmanFord(nodes, edges, sourceNode, destNode)
  /\ UNCHANGED <<nodes, edges, sourceNode, destNode, algorithm, isAnimating,
                 currentStep, mode, connectingFrom, showWeightModal,
                 direction, weightInput, pendingEdge>>

TraceNext == CallDijkstra \/ CallBellmanFord

TraceSpec == TraceInit /\ [][TraceNext]_vars

\* ------------------------------------------------------------------------
\* The component: state after the first render, and one action per handler.
\* A handler that returns early, or changes only what is not modelled (node
\* positions, dragging, toasts), leaves every variable unchanged.
\* A control is enabled exactly as its `disabled` attribute and its
\* conditional rendering say: the source tests isAnimating and steps.length,
\* and never showWeightModal, so the controls of the page stay operable (from
\* the keyboard at least) while the weight modal is shown.
\* ------------------------------------------------------------------------

\* the UI keeps at most MaxNodes nodes and MaxEdges edges
MaxNodes == 2
MaxEdges == 3

\* what the user can have typed into the weight field, as characters
WeightInputs == {<<"1">>, <<"-", "1">>, <<"0">>, <<>>, <<"1", "e", "1">>}

Digits == <<"0", "1", "2", "3", "4", "5", "6", "7", "8", "9">>
IsDigit(c) == \E d \in 1..Len(Digits) : Digits[d] = c
DigitValue(c) == (CHOOSE d \in 1..Len(Digits) : Digits[d] = c) - 1

RECURSIVE DigitPrefix(_, _, _)
\* [count |-> leading digits read, value |-> their decimal value]
DigitPrefix(chars, i, acc) ==
  IF i <= Len(chars) /\ IsDigit(chars[i])
    THEN DigitPrefix(chars, i + 1, [count |-> acc.count + 1,
                                    value |-> 10 * acc.value + DigitValue(chars[i])])
    ELSE acc

\* parseInt(string): an optional sign, then the longest run of digits; NaN when
\* there is no digit. [nan |-> TRUE] is NaN.
parseInt(chars) ==
  LET signed == Len(chars) > 0 /\ chars[1] \in {"-", "+"}
      body == IF signed THEN Tail(chars) ELSE chars
      read == DigitPrefix(body, 1, [count |-> 0, value |-> 0])
  IN IF read.count = 0 THEN [nan |-> TRUE, value |-> 0]
     ELSE [nan |-> FALSE,
           value |-> IF signed /\ chars[1] = "-" THEN 0 - read.value ELSE read.value]

\* `weight < 0` (false for NaN)
IsNegative(weight) == ~weight.nan /\ weight.value < 0

\* `weight && ...`: NaN and 0 are falsy
Truthy(weight) == ~weight.nan /\ weight.value # 0

Init ==
  /\ NoCall
  /\ nodes = <<>>
  /\ edges = <<>>
  /\ sourceNode = null
  /\ destNode = null
  /\ algorithm = "dijkstra"
  /\ isAnimating = FALSE
  /\ currentStep = 0
  /\ steps = <<>>
  /\ mode = "add"
  /\ connectingFrom = null
  /\ showWeightModal = FALSE
  /\ direction = "uni"
  /\ weightInput = <<"1">>
  /\ pendingEdge = NoEdge

\* handleCanvasMouseDown, mode 'add', click on empty canvas
AddNode ==
  /\ UNCHANGED callVars
  /\ ~isAnimating
  /\ mode = "add"
  /\ Len(nodes) < MaxNodes
  /\ nodes' = Append(nodes, NodeId(Len(nodes)))
  /\ UNCHANGED <<edges, sourceNode, destNode, algorithm, isAnimating, currentStep,
                 steps, mode, connectingFrom, showWeightModal, direction,
                 weightInput, pendingEdge>>

\* handleCanvasMouseDown, mode 'connect', click on a node, nothing selected yet
StartConnection ==
  /\ UNCHANGED callVars
  /\ ~isAnimating
  /\ mode = "connect"
  /\ connectingFrom = null
  /\ \E clicked \in NodeIds(nodes) : connectingFrom' = clicked
  /\ UNCHANGED <<nodes, edges, sourceNode, destNode, algorithm, isAnimating,
                 currentStep, steps, mode, showWeightModal, direction,
                 weightInput, pendingEdge>>

\* handleCanvasMouseDown, mode 'connect', click on a second node: openWeightModal
OpenWeightModal ==
  /\ UNCHANGED callVars
  /\ ~isAnimating
  /\ mode = "connect"
  /\ connectingFrom # null
  /\ \E clicked \in NodeIds(nodes) :
        /\ connectingFrom # clicked
        /\ pendingEdge' = [from |-> connectingFrom, to |-> clicked]
  /\ weightInput' = <<"1">>
  /\ showWeightModal' = TRUE
  /\ UNCHANGED <<nodes, edges, sourceNode, destNode, algorithm, isAnimating,
                 currentStep, steps, mode, connectingFrom, direction>>

\* handleCanvasMouseDown, mode 'delete', click on a node
DeleteNode ==
  /\ UNCHANGED callVars
  /\ ~isAnimating
  /\ mode = "delete"
  /\ \E clicked \in NodeIds(nodes) :
        /\ nodes' = SelectSeq(nodes, LAMBDA n : n # clicked)
        /\ edges' = SelectSeq(edges, LAMBDA e : e.from # clicked /\ e.to # clicked)
        /\ sourceNode' = IF sourceNode = clicked THEN null ELSE sourceNode
        /\ destNode' = IF destNode = clicked THEN null ELSE destNode
  /\ UNCHANGED <<algorithm, isAnimating, currentStep, steps, mode, connectingFrom,
                 showWeightModal, direction, weightInput, pendingEdge>>

\* handleCanvasMouseDown, mode 'selectSource', click on a node
SelectSource ==
  /\ UNCHANGED callVars
  /\ ~isAnimating
  /\ mode = "selectSource"
  /\ \E clicked \in NodeIds(nodes) : sourceNode' = clicked
  /\ mode' = "add"
  /\ UNCHANGED <<nodes, edges, destNode, algorithm, isAnimating, currentStep, steps,
                 connectingFrom, showWeightModal, direction, weightInput, pendingEdge>>

\* handleCanvasMouseDown, mode 'selectDest', click on a node
SelectDest ==
  /\ UNCHANGED callVars
  /\ ~isAnimating
  /\ mode = "selectDest"
  /\ \E clicked \in NodeIds(nodes) : destNode' = clicked
  /\ mode' = "add"
  /\ UNCHANGED <<nodes, edges, sourceNode, algorithm, isAnimating, currentStep, steps,
                 connectingFrom, showWeightModal, direction, weightInput, pendingEdge>>

handleCanvasMouseDown ==
  AddNode \/ StartConnection \/ OpenWeightModal \/ DeleteNode \/ SelectSource \/ SelectDest

\* the Add / Connect / Delete mode buttons (disabled while animating)
ModeButton ==
  /\ UNCHANGED callVars
  /\ ~isAnimating
  /\ \E m \in {"add", "connect", "delete"} : mode' = m
  /\ connectingFrom' = null
  /\ UNCHANGED <<nodes, edges, sourceNode, destNode, algorithm, isAnimating,
                 currentStep, steps, showWeightModal, direction, weightInput,
                 pendingEdge>>

\* the Source / Dest buttons (disabled while animating)
SelectButton ==
  /\ UNCHANGED callVars
  /\ ~isAnimating
  /\ \E m \in {"selectSource", "selectDest"} : mode' = m
  /\ UNCHANGED <<nodes, edges, sourceNode, destNode, algorithm, isAnimating,
                 currentStep, steps, connectingFrom, showWeightModal, direction,
                 weightInput, pendingEdge>>

\* edges.filter(e => e.weight < 0).length > 0
HasNegativeEdge(edgeList) == \E i \in 1..Len(edgeList) : edgeList[i].weight < 0

\* fault injection for SelectAccepts: the negative-edge test is missing
SelectAccepts_Always(value, edgeList) == TRUE

\* whether the algorithm select's onChange stores the chosen value
SelectAccepts(value, edgeList) == ~(value = "dijkstra" /\ HasNegativeEdge(edgeList))

\* the algorithm select's onChange (disabled while animating)
SelectAlgorithm ==
  /\ UNCHANGED callVars
  /\ ~isAnimating
  /\ \E value \in {"dijkstra", "bellman-ford"} :
        algorithm' = IF SelectAccepts(value, edges) THEN value ELSE algorithm
  /\ UNCHANGED <<nodes, edges, sourceNode, destNode, isAnimating, currentStep, steps,
                 mode, connectingFrom, showWeightModal, direction, weightInput,
                 pendingEdge>>

\* the weight field's onChange (the field exists while the modal is shown)
TypeWeight ==
  /\ UNCHANGED callVars
  /\ showWeightModal
  /\ \E typed \in WeightInputs : weightInput' = typed
  /\ UNCHANGED <<nodes, edges, sourceNode, destNode, algorithm, isAnimating,
                 currentStep, steps, mode, connectingFrom, showWeightModal,
                 direction, pendingEdge>>

\* the direction select's onChange (in the modal, disabled while animating)
SetDirection ==
  /\ UNCHANGED callVars
  /\ showWeightModal
  /\ ~isAnimating
  /\ \E d \in {"uni", "bi"} : direction' = d
  /\ UNCHANGED <<nodes, edges, sourceNode, destNode, algorithm, isAnimating,
                 currentStep, steps, mode, connectingFrom, showWeightModal,
                 weightInput, pendingEdge>>

\* closeWeightModal: the overlay, the X button and Cancel
closeWeightModal ==
  /\ UNCHANGED callVars
  /\ showWeightModal
  /\ showWeightModal' = FALSE
  /\ pendingEdge' = NoEdge
  /\ weightInput' = <<"1">>
  /\ connectingFrom' = null
  /\ UNCHANGED <<nodes, edges, sourceNode, destNode, algorithm, isAnimating,
                 currentStep, steps, mode, direction>>

\* the first test of handleWeightSubmit: reject and return, modal left open
SubmitRejected(alg, weight) == alg = "dijkstra" /\ IsNegative(weight)

\* the second test of handleWeightSubmit: `weight && pendingEdge`
SubmitAdds(weight, pending) == Truthy(weight) /\ pending # NoEdge

\* fault injection for SubmittedEdges: the reverse edge of 'bi' is forgotten
SubmittedEdges_OneWay(edgeList, pending, weight, dir) ==
  edgeList \o << [from |-> pending.from, to |-> pending.to, weight |-> weight] >>

\* the edges handleWeightSubmit passes to setEdges
SubmittedEdges(edgeList, pending, weight, dir) ==
  IF dir = "uni"
    THEN edgeList \o << [from |-> pending.from, to |-> pending.to, weight |-> weight] >>
    ELSE edgeList \o << [from |-> pending.from, to |-> pending.to, weight |-> weight],
                        [from |-> pending.to, to |-> pending.from, weight |-> weight] >>

\* handleWeightSubmit (the form exists while the modal is shown)
handleWeightSubmit ==
  /\ UNCHANGED callVars
  /\ showWeightModal
  /\ LET weight == parseInt(weightInput)
     IN IF SubmitRejected(algorithm, weight)
          THEN UNCHANGED vars
          ELSE /\ edges' = IF SubmitAdds(weight, pendingEdge)
                             THEN SubmittedEdges(edges, pendingEdge, weight.value, direction)
                             ELSE edges
               /\ Len(edges') <= MaxEdges
               /\ direction' = "uni"
               /\ showWeightModal' = FALSE
               /\ pendingEdge' = NoEdge
               /\ weightInput' = <<"1">>
               /\ connectingFrom' = null
               /\ UNCHANGED <<nodes, sourceNode, destNode, algorithm, isAnimating,
                              currentStep, steps, mode>>

\* Array.prototype.sort((a, b) => a.distance - b.distance): stable, and in
\* place (the array that is sorted is the one the step holds)
RECURSIVE SortByDistance(_)
SortByDistance(list) ==
  IF Len(list) <= 1 THEN list
  ELSE LET front == SortByDistance(SubSeq(list, 1, Len(list) - 1))
           item == list[Len(list)]
       IN SelectSeq(front, LAMBDA e : e.distance <= item.distance)
            \o <<item>>
            \o SelectSeq(front, LAMBDA e : e.distance > item.distance)

\* the render that follows a change of steps or currentStep: the tentative
\* table of the Dijkstra view calls steps[currentStep].tentative.sort(...).
\* A later render of the same step sorts a sorted list and changes nothing.
RenderStep(stepSeq, index, alg) ==
  IF /\ Len(stepSeq) > 0
     /\ alg = "dijkstra"
     /\ "tentative" \in DOMAIN stepSeq[index + 1]
     /\ Len(stepSeq[index + 1].tentative) > 0
    THEN [stepSeq EXCEPT ![index + 1].tentative = SortByDistance(@)]
    ELSE stepSeq

\* fault injection for RunRefused: the empty edge list is not tested
RunRefused_NoEdgeCheck == sourceNode = null \/ destNode = null

\* the guard of runAlgorithm
RunRefused == sourceNode = null \/ destNode = null \/ Len(edges) = 0

\* runAlgorithm (the Run button is disabled while animating), with the render
\* of step 0 that follows it
runAlgorithm ==
  /\ UNCHANGED callVars
  /\ ~isAnimating
  /\ IF RunRefused
       THEN UNCHANGED vars
       ELSE /\ steps' = RenderStep(IF algorithm = "dijkstra"
                                       THEN dijkstra(nodes, edges, sourceNode, destNode)
                                       ELSE bellmanFord(nodes, edges, sourceNode, destNode),
                                     0, algorithm)
            /\ currentStep' = 0
            /\ isAnimating' = TRUE
            /\ UNCHANGED <<nodes, edges, sourceNode, destNode, algorithm, mode,
                           connectingFrom, showWeightModal, direction, weightInput,
                           pendingEdge>>

\* nextStep (the button is rendered while isAnimating && currentStep < steps.length - 1),
\* with the render of the new current step that follows it
nextStep ==
  /\ UNCHANGED callVars
  /\ isAnimating
  /\ currentStep < Len(steps) - 1
  /\ IF currentStep < Len(steps) - 1
       THEN /\ currentStep' = currentStep + 1
            /\ steps' = RenderStep(steps, currentStep + 1, algorithm)
            /\ UNCHANGED isAnimating
       ELSE isAnimating' = FALSE /\ UNCHANGED <<currentStep, steps>>
  /\ UNCHANGED <<nodes, edges, sourceNode, destNode, algorithm, mode,
                 connectingFrom, showWeightModal, direction, weightInput, pendingEdge>>

\* resetVisualization (the Reset button is disabled while steps is empty)
resetVisualization ==
  /\ UNCHANGED callVars
  /\ Len(steps) # 0
  /\ isAnimating' = FALSE
  /\ currentStep' = 0
  /\ steps' = <<>>
  /\ UNCHANGED <<nodes, edges, sourceNode, destNode, algorithm, mode, connectingFrom,
                 showWeightModal, direction, weightInput, pendingEdge>>

\* clearGraph (the Clear button is disabled while animating)
clearGraph ==
  /\ UNCHANGED callVars
  /\ ~isAnimating
  /\ nodes' = <<>>
  /\ edges' = <<>>
  /\ sourceNode' = null
  /\ destNode' = null
  /\ isAnimating' = FALSE
  /\ currentStep' = 0
  /\ steps' = <<>>
  /\ UNCHANGED <<algorithm, mode, connectingFrom, showWeightModal, direction,
                 weightInput, pendingEdge>>

Next ==
  \/ handleCanvasMouseDown
  \/ ModeButton
  \/ SelectButton
  \/ SelectAlgorithm
  \/ TypeWeight
  \/ SetDirection
  \/ closeWeightModal
  \/ handleWeightSubmit
  \/ runAlgorithm
  \/ nextStep
  \/ resetVisualization
  \/ clearGraph

Spec == Init /\ [][Next]_vars

\* ------------------------------------------------------------------------
\* HeapSpec: one MinHeap instance driven by arbitrary push and pop calls.
\* The instance holds at most MaxHeapSize entries; nodes and priorities are
\* drawn from HeapNodes and HeapPriorities, so that the same node and the same
\* priority are pushed more than once.
\* ------------------------------------------------------------------------

MaxHeapSize == 5
HeapNodes == {NodeId(0), NodeId(1)}
HeapPriorities == {0, 1, 2}

\* const minHeap = new MinHeap(), in the freshly mounted component
HeapInit == Init

\* minHeap.push(node, priority)
HeapPush ==
  /\ Len(minHeap) < MaxHeapSize
  /\ \E node \in HeapNodes, priority \in HeapPriorities :
        minHeap' = push(minHeap, node, priority)
  /\ UNCHANGED <<lastPop, run, uiVars>>

\* minHeap.pop(), its return value kept in lastPop
HeapPop ==
  /\ lastPop' = pop(minHeap).result
  /\ minHeap' = pop(minHeap).heap
  /\ UNCHANGED <<run, uiVars>>

HeapNext == HeapPush \/ HeapPop

HeapSpec == HeapInit /\ [][HeapNext]_vars

\* ------------------------------------------------------------------------
\* RunSpec: a Dijkstra run step by step, then its playback. runAlgorithm's
\* call of dijkstra() is followed statement by statement: `run` holds the
\* locals of the call, one action per loop iteration and per forEach
\* callback; the return stores the sequence as runAlgorithm does; nextStep and
\* resetVisualization are the handlers of the component.
\* The graph is one the component can hold with Dijkstra selected: distinct
\* node ids, no self-loop, positive weights.
\* ------------------------------------------------------------------------

RunWeights == {1, 2, 3}

RunEdgeLists(nodeList) ==
  SeqsUpTo({e \in [from : NodeIds(nodeList), to : NodeIds(nodeList), weight : RunWeights] :
              e.from # e.to},
           MaxTraceEdges)

RunInit ==
  /\ NoCall
  /\ nodes \in TraceNodeLists
  /\ edges \in RunEdgeLists(nodes)
  /\ sourceNode \in NodeIds(nodes)
  /\ destNode \in NodeIds(nodes)
  /\ algorithm = "dijkstra"
  /\ steps = <<>>
  /\ isAnimating = FALSE
  /\ currentStep = 0
  /\ mode = "add"
  /\ connectingFrom = null
  /\ showWeightModal = FALSE
  /\ direction = "uni"
  /\ weightInput = <<"1">>
  /\ pendingEdge = NoEdge

\* runAlgorithm passes its guard and enters dijkstra(): initialisation and
\* the `init` step
DijkstraEnter ==
  /\ ~isAnimating
  /\ ~RunRefused
  /\ algorithm = "dijkstra"
  /\ run.pc = "idle"
  /\ run' = [pc |-> "loop",
             st |-> DijkstraStart(nodes, sourceNode),
             current |-> null,
             neighbors |-> <<>>,
             k |-> 0,
             permanentArray |-> <<>>,
             tentativeArray |-> <<>>]
  /\ UNCHANGED <<minHeap, lastPop, uiVars>>

\* one iteration of the while loop up to neighbors.forEach: pop, the
\* `permanent.has(current)` skip, the `extract` step, the early termination
DijkstraPop ==
  /\ run.pc = "loop"
  /\ ~isEmpty(run.st.heap)
  /\ LET top == pop(run.st.heap)
         current == top.result.node
     IN IF Has(run.st.permanent, current)
          THEN run' = [run EXCEPT !.st.heap = top.heap]
          ELSE LET extracted == ExtractMin(run.st, top.heap, current, edges)
                   neighbors == Neighbors(edges, current)
               IN run' = [pc |-> IF EarlyTermination(current, destNode) THEN "finish"
                                 ELSE IF neighbors = <<>> THEN "loop"
                                 ELSE "relax",
                          st |-> extracted,
                          current |-> current,
                          neighbors |-> neighbors,
                          k |-> 1,
                          permanentArray |-> PermanentArray(extracted.permanent,
                                                            run.st.distances),
                          tentativeArray |-> getAll(top.heap)]
  /\ UNCHANGED <<minHeap, lastPop, uiVars>>

\* one callback of neighbors.forEach
DijkstraRelax ==
  /\ run.pc = "relax"
  /\ run' = [run EXCEPT
               !.st = RelaxNeighbor(run.st, run.current, run.neighbors[run.k],
                                    run.permanentArray, run.tentativeArray),
               !.k = @ + 1,
               !.pc = IF run.k = Len(run.neighbors) THEN "loop" ELSE "relax"]
  /\ UNCHANGED <<minHeap, lastPop, uiVars>>

\* the loop is left (empty heap or early termination): path reconstruction,
\* the `complete` step, return; then runAlgorithm stores the sequence and the
\* component renders step 0
DijkstraReturn ==
  /\ run.pc = "finish" \/ (run.pc = "loop" /\ isEmpty(run.st.heap))
  /\ steps' = RenderStep(DijkstraComplete(run.st, destNode), 0, algorithm)
  /\ currentStep' = 0
  /\ isAnimating' = TRUE
  /\ run' = NoRun
  /\ UNCHANGED <<nodes, edges, sourceNode, destNode, algorithm, mode, connectingFrom,
                 showWeightModal, direction, weightInput, pendingEdge,
                 minHeap, lastPop>>

RunNext ==
  \/ DijkstraEnter
  \/ DijkstraPop
  \/ DijkstraRelax
  \/ DijkstraReturn
  \/ nextStep
  \/ resetVisualization

RunSpec == RunInit /\ [][RunNext]_vars

\* ------------------------------------------------------------------------
\* Reference definitions of shortest distance and negative cycle, taken
\* from the graph alone (nodes, edges, sourceNode), not from either tracer.
\* ------------------------------------------------------------------------

NonNegativeWeights == \A i \in 1..Len(edges) : edges[i].weight >= 0

EdgeWeights(u, v) ==
  {edges[i].weight : i \in {j \in 1..Len(edges) : edges[j].from = u /\ edges[j].to = v}}

MinOf(S) == CHOOSE x \in S : \A y \in S : x <= y

\* sequences of pairwise distinct nodes joined by edges
SimpleWalks ==
  {p \in UNION {[1..k -> NodeIds(nodes)] : k \in 1..Cardinality(NodeIds(nodes))} :
     /\ \A i, j \in 1..Len(p) : i # j => p[i] # p[j]
     /\ \A i \in 1..(Len(p) - 1) : EdgeWeights(p[i], p[i + 1]) # {}}

SimplePaths(a, b) == {p \in SimpleWalks : p[1] = a /\ p[Len(p)] = b}

RECURSIVE WalkWeight(_, _)
WalkWeight(p, i) ==
  IF i >= Len(p) THEN 0
  ELSE MinOf(EdgeWeights(p[i], p[i + 1])) + WalkWeight(p, i + 1)

Reachable(n) == SimplePaths(sourceNode, n) # {}

\* the minimum weight of a path from sourceNode to n (no negative cycle assumed)
ShortestDistance(n) ==
  IF Reachable(n)
    THEN MinOf({WalkWeight(p, 1) : p \in SimplePaths(sourceNode, n)})
    ELSE Infinity

\* a simple cycle of negative total weight through a node reachable from sourceNode
NegativeCycleReachable ==
  \E c \in SimpleWalks :
     /\ EdgeWeights(c[Len(c)], c[1]) # {}
     /\ WalkWeight(c, 1) + MinOf(EdgeWeights(c[Len(c)], c[1])) < 0
     /\ Reachable(c[1])

Final == steps[Len(steps)]

StepTypes == {steps[i].type : i \in 1..Len(steps)}

\* the permanent set recorded in a dijkstra step
PermanentNodes(step) == {step.permanent[i].node : i \in 1..Len(step.permanent)}

DijkstraReturned == algorithm = "dijkstra" /\ steps # <<>>
BellmanFordReturned == algorithm = "bellman-ford" /\ steps # <<>>

\* ------------------------------------------------------------------------
\* Claims about the tracers (checked under TraceSpec)
\* ------------------------------------------------------------------------

\* C1 (as stated): on a graph with non-negative weights the `complete` step of
\* dijkstra() records, for EVERY node, the minimum path weight from the source
\* (Infinity when there is no path).
C1_AllNodesShortest ==
  (DijkstraReturned /\ NonNegativeWeights) =>
     /\ Final.type = "complete"
     /\ \A n \in NodeIds(nodes) : Final.distances[n] = ShortestDistance(n)

\* C1 (amended): on a graph with non-negative weights the `complete` step of
\* dijkstra() records the minimum path weight from the source for the
\* destination and for every node of its permanent set (Infinity for the
\* destination when there is no path); for any other node it records a value
\* that is not below the minimum.
C1_PermanentAndDestShortest ==
  (DijkstraReturned /\ NonNegativeWeights) =>
     /\ Final.type = "complete"
     /\ Final.distances[destNode] = ShortestDistance(destNode)
     /\ \A n \in PermanentNodes(Final) : Final.distances[n] = ShortestDistance(n)
     /\ \A n \in NodeIds(nodes) : Final.distances[n] >= ShortestDistance(n)

\* a run that stopped early on a three-node path, every node finalized
C1_Witness ==
  /\ DijkstraReturned /\ NonNegativeWeights
  /\ Len(Final.path) = 3
  /\ Cardinality(PermanentNodes(Final)) = 3
  /\ \E n \in NodeIds(nodes) : EdgeWeights(sourceNode, n) # {}
                                /\ Final.distances[n] < MinOf(EdgeWeights(sourceNode, n))

\* C2: bellmanFord() ends with a `negative-cycle` step exactly when a cycle of
\* negative total weight is reachable from the source, and then the sequence
\* holds no `complete` step.
C2_NegativeCycleIff ==
  BellmanFordReturned =>
     /\ (Final.type = "negative-cycle") <=> NegativeCycleReachable
     /\ Final.type = "negative-cycle" => "complete" \notin StepTypes
     /\ Final.type \in {"negative-cycle", "complete"}

\* a negative cycle away from the source, found after the full |V|-1 passes
C2_Witness ==
  /\ BellmanFordReturned
  /\ Final.type = "negative-cycle"
  /\ Len(nodes) = 3
  /\ \A i \in 1..Len(edges) : edges[i].to # sourceNode /\ edges[i].from # edges[i].to

\* the `complete` step of the other tracer on the same arguments
OtherTracerSteps ==
  IF algorithm = "dijkstra"
    THEN bellmanFord(nodes, edges, sourceNode, destNode)
    ELSE dijkstra(nodes, edges, sourceNode, destNode)

\* C3: on a graph with non-negative weights both tracers end with `complete`,
\* with the same distance for the destination, and the path is empty in one
\* exactly when it is empty in the other.
C3_TracersAgree ==
  (steps # <<>> /\ NonNegativeWeights) =>
     LET other == OtherTracerSteps[Len(OtherTracerSteps)]
     IN /\ Final.type = "complete"
        /\ other.type = "complete"
        /\ Final.distances[destNode] = other.distances[destNode]
        /\ (Final.path = <<>>) <=> (other.path = <<>>)

\* both tracers found a two-edge path to the destination
C3_Witness ==
  /\ steps # <<>> /\ NonNegativeWeights
  /\ Len(Final.path) = 3
  /\ Len(OtherTracerSteps[Len(OtherTracerSteps)].path) = 3

C5_DijkstraNoNegativeEdge ==
  algorithm = "dijkstra" => \A i \in 1..Len(edges) : edges[i].weight >= 0

\* Dijkstra selected, an edge in the list, and a negative weight typed for
\* the pending edge of the open modal
C5_Witness ==
  /\ algorithm = "dijkstra"
  /\ Len(edges) >= 1
  /\ showWeightModal
  /\ pendingEdge # NoEdge
  /\ weightInput = <<"-", "1">>

\* C6: runAlgorithm with the source unset, the destination unset or no edge
\* leaves steps, currentStep and isAnimating unchanged; in every other case it
\* stores the selected tracer's step sequence, sets currentStep to 0 and
\* isAnimating to true.
C6_RunAlgorithmGuard ==
  [][runAlgorithm =>
       IF sourceNode = null \/ destNode = null \/ edges = <<>>
         THEN UNCHANGED <<steps, currentStep, isAnimating>>
         ELSE /\ steps' = IF algorithm = "dijkstra"
                            THEN dijkstra(nodes, edges, sourceNode, destNode)
                            ELSE bellmanFord(nodes, edges, sourceNode, destNode)
              /\ steps' # <<>>
              /\ currentStep' = 0
              /\ isAnimating' = TRUE]_vars

\* a Bellman-Ford run has just been stored for playback
C6_Witness ==
  /\ isAnimating
  /\ currentStep = 0
  /\ algorithm = "bellman-ford"
  /\ sourceNode # null /\ destNode # null /\ edges # <<>>
  /\ steps = bellmanFord(nodes, edges, sourceNode, destNode)

\* C7: no two nodes of the node list share an id.
C7_UniqueNodeIds ==
  \A i, j \in 1..Len(nodes) : i # j => nodes[i] # nodes[j]

\* C8: every edge of the edge list has its `from` and its `to` among the ids
\* of the node list.
C8_EdgesReferenceNodes ==
  \A i \in 1..Len(edges) :
     edges[i].from \in NodeIds(nodes) /\ edges[i].to \in NodeIds(nodes)

\* C9: handleWeightSubmit with a pending edge appends the proposed edge(s)
\* exactly when the typed weight parses to an integer and (the algorithm is
\* not Dijkstra or the weight is >= 0); otherwise the edge list is unchanged.
C9_SubmitAcceptsIff ==
  [][(handleWeightSubmit /\ pendingEdge # NoEdge) =>
       LET weight == parseInt(weightInput)
           forward == [from |-> pendingEdge.from, to |-> pendingEdge.to,
                       weight |-> weight.value]
           backward == [from |-> pendingEdge.to, to |-> pendingEdge.from,
                        weight |-> weight.value]
       IN IF ~weight.nan /\ (algorithm # "dijkstra" \/ weight.value >= 0)
            THEN edges' = IF direction = "uni" THEN edges \o <<forward>>
                          ELSE edges \o <<forward, backward>>
            ELSE edges' = edges]_vars

\* C10: a step that changes the edge list is an accepted submission that
\* appends (from,to,w) alone under 'uni', or (from,to,w) followed by
\* (to,from,w) under 'bi', after the unchanged earlier edges; or it removes
\* every edge at some node, or every edge. Both edges of a 'bi' submission
\* join the same two nodes, so they are added together and removed together.
C10_BiAppendsPairAtomically ==
  [][edges' # edges =>
       LET weight == parseInt(weightInput)
           forward == [from |-> pendingEdge.from, to |-> pendingEdge.to,
                       weight |-> weight.value]
           backward == [from |-> pendingEdge.to, to |-> pendingEdge.from,
                        weight |-> weight.value]
       IN \/ /\ showWeightModal /\ pendingEdge # NoEdge /\ ~weight.nan
             /\ direction = "uni"
             /\ edges' = edges \o <<forward>>
          \/ /\ showWeightModal /\ pendingEdge # NoEdge /\ ~weight.nan
             /\ direction = "bi"
             /\ edges' = edges \o <<forward, backward>>
          \/ \E x \in NodeIds(nodes) :
                edges' = SelectSeq(edges, LAMBDA e : e.from # x /\ e.to # x)
          \/ edges' = <<>>]_vars

\* an earlier edge followed by the two edges of one 'bi' submission
C10_Witness ==
  /\ Len(edges) = 3
  /\ edges[1].weight = 1
  /\ edges[2].weight = -1 /\ edges[3].weight = -1
  /\ edges[3].from = edges[2].to /\ edges[3].to = edges[2].from
  /\ ~showWeightModal

\* C18: while a trace is held (isAnimating true or steps non-empty) no
\* transition adds or deletes a node or an edge unless it also discards the
\* step sequence, so a held sequence always belongs to the current graph.
C18_GraphFrozenWhileTraceHeld ==
  [][((isAnimating \/ steps # <<>>) /\ (nodes' # nodes \/ edges' # edges))
        => steps' = <<>>]_vars

\* ------------------------------------------------------------------------
\* Claims about the step sequences of the tracers (checked under TraceSpec)
\* ------------------------------------------------------------------------

\* the node ids of a step's permanent list, in list order
PermanentList(step) == [i \in 1..Len(step.permanent) |-> step.permanent[i].node]

ExtractIndices == {i \in 1..Len(steps) : steps[i].type = "extract"}

\* the permanent list of the last `extract` step before position i (empty
\* when there is none)
PermanentBefore(i) ==
  LET earlier == {j \in ExtractIndices : j < i}
  IN IF earlier = {} THEN <<>>
     ELSE PermanentList(steps[CHOOSE j \in earlier : \A k \in earlier : k <= j])

\* C11: in the sequence returned by dijkstra() the permanent list of each
\* `extract` step is that of the previous `extract` step followed by the
\* step's `current`, which was not in it; no step lists a node twice in its
\* permanent list, and no node is the `current` of two `extract` steps.
C11_PermanentGrowsByOne ==
  DijkstraReturned =>
     /\ \A i \in ExtractIndices :
           /\ PermanentList(steps[i]) = Append(PermanentBefore(i), steps[i].current)
           /\ ~Has(PermanentBefore(i), steps[i].current)
     /\ \A i \in 1..Len(steps) :
           \A a, b \in 1..Len(steps[i].permanent) :
              a # b => steps[i].permanent[a].node # steps[i].permanent[b].node
     /\ \A i, j \in ExtractIndices : i # j => steps[i].current # steps[j].current

\* three extractions, and a heap that held the same node twice on the way
\* (the later entry is popped and skipped or left behind)
C11_Witness ==
  /\ DijkstraReturned
  /\ Cardinality(ExtractIndices) = 3
  /\ \E i \in 1..Len(steps) :
        \E a, b \in 1..Len(steps[i].tentative) :
           a # b /\ steps[i].tentative[a].node = steps[i].tentative[b].node

\* C12: in the `complete` step of either tracer activeEdges is the list of
\* keys path[i]-path[i+1] of the consecutive elements of that step's path, in
\* order, hence empty for an empty path and for a path of one node.
C12_ActiveEdgesFollowPath ==
  (steps # <<>> /\ Final.type = "complete") =>
     /\ Len(Final.activeEdges) = (IF Final.path = <<>> THEN 0 ELSE Len(Final.path) - 1)
     /\ \A i \in 1..Len(Final.activeEdges) :
           Final.activeEdges[i] = <<Final.path[i], Final.path[i + 1]>>

\* a Bellman-Ford run whose path has two edges, one of them of negative weight
C12_Witness ==
  /\ BellmanFordReturned
  /\ Final.type = "complete"
  /\ Len(Final.path) = 3
  /\ \E i \in 1..2 : \E w \in EdgeWeights(Final.path[i], Final.path[i + 1]) : w < 0

\* C13 (as stated): for either tracer, when the destination is not reachable
\* from the source the run ends with a `complete` step whose path is empty and
\* whose distance for the destination is Infinity.
C13_UnreachableEndsComplete ==
  (steps # <<>> /\ ~Reachable(destNode)) =>
     /\ Final.type = "complete"
     /\ Final.path = <<>>
     /\ Final.distances[destNode] = Infinity

\* C13 (amended): when the destination is not reachable from the source,
\* dijkstra() on non-negative weights, and bellmanFord() when no negative cycle
\* is reachable from the source, end with a `complete` step whose path is
\* empty and whose distance for the destination is Infinity; bellmanFord()
\* with a negative cycle reachable from the source ends with a
\* `negative-cycle` step instead, the destination's distance still Infinity.
C13_UnreachableUnlessNegativeCycle ==
  (steps # <<>> /\ ~Reachable(destNode)
     /\ (algorithm = "dijkstra" => NonNegativeWeights)) =>
     IF algorithm = "bellman-ford" /\ NegativeCycleReachable
       THEN /\ Final.type = "negative-cycle"
            /\ Final.distances[destNode] = Infinity
       ELSE /\ Final.type = "complete"
            /\ Final.path = <<>>
            /\ Final.distances[destNode] = Infinity

\* the destination is cut off while the source reaches another node over
\* two edges, and the run ended with an empty path
C13_Witness ==
  /\ steps # <<>>
  /\ ~Reachable(destNode)
  /\ Final.type = "complete"
  /\ Final.path = <<>>
  /\ Final.distances[destNode] = Infinity
  /\ \E n \in NodeIds(nodes) : \E p \in SimplePaths(sourceNode, n) : Len(p) = 2
  /\ \E i \in 1..Len(edges) : edges[i].from = destNode

\* C16: on a graph with no negative cycle reachable from the source (negative
\* weights allowed) bellmanFord() ends with a `complete` step whose distances
\* give, for every node, the minimum weight of a path from the source, and
\* Infinity when there is none.
C16_BellmanFordAllNodesShortest ==
  (BellmanFordReturned /\ ~NegativeCycleReachable) =>
     /\ Final.type = "complete"
     /\ \A n \in NodeIds(nodes) : Final.distances[n] = ShortestDistance(n)

\* every node is reached, one of them at a negative distance over two edges
\* that beat a direct edge
C16_Witness ==
  /\ BellmanFordReturned /\ ~NegativeCycleReachable
  /\ Len(nodes) = 3
  /\ \A n \in NodeIds(nodes) : Reachable(n)
  /\ \E n \in NodeIds(nodes) :
        /\ Final.distances[n] < 0
        /\ EdgeWeights(sourceNode, n) # {}
        /\ Final.distances[n] < MinOf(EdgeWeights(sourceNode, n))

\* the positions of the `iteration-start` steps
PassStarts == {i \in 1..Len(steps) : steps[i].type = "iteration-start"}

RelaxationTypes == {"update", "no-update", "skip"}

\* C17: the sequence returned by bellmanFord() is show-edges, init, then at
\* most |V|-1 passes, then one last step; each pass is `iteration-start`, one
\* update/no-update/skip step per edge in stored edge order, `iteration-end`
\* with updated true exactly when the pass holds an `update` step; no pass
\* follows an `iteration-end` whose updated is false.
C17_PassStructure ==
  BellmanFordReturned =>
     /\ Cardinality(PassStarts) <= Len(nodes) - 1
     /\ Len(steps) = 2 + Cardinality(PassStarts) * (Len(edges) + 2) + 1
     /\ \A s \in PassStarts :
           LET end == s + Len(edges) + 1
           IN /\ end < Len(steps)
              /\ \A k \in 1..Len(edges) :
                    /\ steps[s + k].type \in RelaxationTypes
                    /\ steps[s + k].edge = edges[k]
                    /\ steps[s + k].edgeNumber = k
              /\ steps[end].type = "iteration-end"
              /\ steps[end].updated =
                    (\E k \in 1..Len(edges) : steps[s + k].type = "update")
              /\ ~steps[end].updated => \A t \in PassStarts : t <= s
     /\ \A i \in 1..Len(steps) :
           steps[i].type \in RelaxationTypes \cup {"iteration-end"} =>
              \E s \in PassStarts : s < i /\ i <= s + Len(edges) + 1

\* three nodes, three edges: a first pass with an update and a skip, then a
\* second pass without update, after which the run stops
C17_Witness ==
  /\ BellmanFordReturned
  /\ Len(nodes) = 3 /\ Len(edges) = 3
  /\ Cardinality(PassStarts) = 2
  /\ \E i, j \in 1..Len(steps) :
        /\ steps[i].type = "skip" /\ steps[j].type = "update"
        /\ steps[i].iteration = 1 /\ steps[j].iteration = 1
  /\ \E i \in 1..Len(steps) : steps[i].type = "iteration-end" /\ ~steps[i].updated

TerminalTypes == {"complete", "negative-cycle"}

\* what the call of the selected tracer on the current graph returns
SelectedTracerSteps ==
  IF algorithm = "dijkstra"
    THEN dijkstra(nodes, edges, sourceNode, destNode)
    ELSE bellmanFord(nodes, edges, sourceNode, destNode)

\* C19: on every graph with source and destination in the node list
\* (non-negative weights for Dijkstra, any weights for Bellman-Ford) the call
\* of the selected tracer returns (its value, the path reconstruction
\* included, is defined before the call is made), and the sequence has
\* exactly one terminal step (`complete`, or `negative-cycle` for
\* Bellman-Ford), which is its last step, and an `init` step before every
\* extract, iteration and relaxation step.
C19_TerminatesWithOneTerminalStep ==
  (algorithm = "dijkstra" => NonNegativeWeights) =>
     /\ steps = <<>> => Len(SelectedTracerSteps) > 0
     /\ steps # <<>> =>
          /\ Final.type \in (IF algorithm = "dijkstra" THEN {"complete"}
                             ELSE TerminalTypes)
          /\ \A i \in 1..(Len(steps) - 1) : steps[i].type \notin TerminalTypes
          /\ \E k \in 1..Len(steps) :
                /\ steps[k].type = "init"
                /\ \A i \in 1..Len(steps) :
                      steps[i].type \in {"extract", "update", "no-update", "skip",
                                         "iteration-start", "iteration-end"}
                         => k < i

\* a Dijkstra run on non-negative weights that extracted a node while an
\* outdated entry for it stayed in the heap, and rebuilt a path of three nodes
C19_Witness ==
  /\ DijkstraReturned /\ NonNegativeWeights
  /\ Final.type = "complete"
  /\ Len(Final.path) = 3
  /\ Cardinality(ExtractIndices) = 3
  /\ \E i \in ExtractIndices :
        \E a \in 1..Len(steps[i].tentative) : steps[i].tentative[a].node = steps[i].current

\* the totals obtainable along p from position i on, taking for each
\* consecutive pair the weight of one of the edges that join it
RECURSIVE PathSums(_, _)
PathSums(p, i) ==
  IF i >= Len(p) THEN {0}
  ELSE {w + rest : w \in EdgeWeights(p[i], p[i + 1]), rest \in PathSums(p, i + 1)}

\* C22: a non-empty path in the `complete` step of either tracer starts at
\* the source, ends at the destination, repeats no node, joins each
\* consecutive pair by an edge of the graph, and those edges can be chosen so
\* that their weights add up to the step's distance for the destination.
C22_PathIsSourceToDestPath ==
  (steps # <<>> /\ Final.type = "complete" /\ Final.path # <<>>) =>
     /\ Final.path[1] = sourceNode
     /\ Final.path[Len(Final.path)] = destNode
     /\ \A i, j \in 1..Len(Final.path) : i # j => Final.path[i] # Final.path[j]
     /\ \A i \in 1..(Len(Final.path) - 1) :
           EdgeWeights(Final.path[i], Final.path[i + 1]) # {}
     /\ Final.distances[destNode] \in PathSums(Final.path, 1)

\* a path of two edges, the first of which has a heavier parallel edge, so
\* that only one choice of edges gives the recorded distance
C22_Witness ==
  /\ steps # <<>>
  /\ Final.type = "complete"
  /\ Len(Final.path) = 3
  /\ Cardinality(EdgeWeights(Final.path[1], Final.path[2])) = 2
  /\ Cardinality(PathSums(Final.path, 1)) = 2

\* ------------------------------------------------------------------------
\* Claims about MinHeap (checked under HeapSpec)
\* ------------------------------------------------------------------------

\* how many positions of seq hold x
Count(seq, x) == Cardinality({i \in 1..Len(seq) : seq[i] = x})

\* the entries of b are those of a and one more x (with multiplicity)
OneMore(a, b, x) ==
  /\ Len(b) = Len(a) + 1
  /\ \A i \in 1..Len(b) :
        Count(b, b[i]) = Count(a, b[i]) + (IF b[i] = x THEN 1 ELSE 0)

\* C14: push adds its entry and keeps every other entry, so the heap always
\* holds exactly the entries pushed and not yet popped; pop on a non-empty
\* heap returns one of them whose priority is minimal among them and removes
\* that one entry only; pop on an empty heap returns null and leaves the heap
\* empty.
C14_PopReturnsMinimum ==
  [][/\ HeapPush =>
          \E node \in HeapNodes, priority \in HeapPriorities :
             OneMore(minHeap, minHeap', [node |-> node, priority |-> priority])
     /\ HeapPop =>
          IF minHeap = <<>>
            THEN lastPop' = NoEntry /\ minHeap' = <<>>
            ELSE /\ Has(minHeap, lastPop')
                 /\ \A i \in 1..Len(minHeap) : lastPop'.priority <= minHeap[i].priority
                 /\ OneMore(minHeap', minHeap, lastPop')]_vars

\* a pop returned an entry while three entries stay behind: one is a second
\* entry for the returned node, one has the returned priority, one is larger
C14_Witness ==
  /\ lastPop # NoEntry
  /\ Len(minHeap) = 3
  /\ \E i, j, k \in 1..3 :
        /\ i # j /\ minHeap[i].node = lastPop.node
        /\ minHeap[j].priority = lastPop.priority
        /\ minHeap[k].priority > lastPop.priority

\* ------------------------------------------------------------------------
\* Claims about a run and its playback (checked under RunSpec)
\* ------------------------------------------------------------------------

\* the steps emitted so far: the local array of the call while it is under
\* way, the stored sequence afterwards
Emitted == IF run.pc # "idle" THEN run.st.steps ELSE steps

\* the step-by-step run stores what one call of dijkstra() returns
RunStoresDijkstra ==
  (run.pc = "idle" /\ steps # <<>> /\ currentStep = 0) =>
     steps = RenderStep(dijkstra(nodes, edges, sourceNode, destNode), 0, algorithm)

\* C15: a step that has been appended never changes again, neither while the
\* tracer goes on nor during playback: every step of the sequence is, after
\* any transition that keeps it, what it was before.
C15_StepsNeverChange ==
  [][\A i \in 1..Len(Emitted) :
        i <= Len(Emitted') => Emitted'[i] = Emitted[i]]_vars

\* C20: every `extract`, `update` and `no-update` step, at the moment it is
\* emitted, lists in `tentative` exactly the entries the min-heap holds, and
\* its distances and previous are the working maps.
C20_SnapshotIsWorkingState ==
  [][(run.pc # "idle" /\ run'.pc # "idle"
        /\ Len(run'.st.steps) = Len(run.st.steps) + 1) =>
       LET step == run'.st.steps[Len(run'.st.steps)]
           held == getAll(run'.st.heap)
       IN step.type \in {"extract", "update", "no-update"} =>
            /\ Len(step.tentative) = Len(held)
            /\ \A i \in 1..Len(held) : Count(step.tentative, held[i]) = Count(held, held[i])
            /\ step.distances = run'.st.distances
            /\ step.previous = run'.st.previous]_vars

\* the node ids of a step's tentative list
TentativeNodes(step) == {step.tentative[i].node : i \in 1..Len(step.tentative)}

\* C21 (as stated): in every step emitted by dijkstra() no node of the
\* permanent list is also in the tentative list, and no node is in the
\* tentative list twice.
C21_PermanentTentativeDisjoint ==
  \A i \in 1..Len(Emitted) :
     /\ PermanentNodes(Emitted[i]) \cap TentativeNodes(Emitted[i]) = {}
     /\ \A a, b \in 1..Len(Emitted[i].tentative) :
           a # b => Emitted[i].tentative[a].node # Emitted[i].tentative[b].node

\* C21 (amended): the tentative list is the heap under lazy deletion. In
\* every step emitted by dijkstra() each tentative entry carries a distance
\* that is not below the step's distance for its node; the entries of one
\* node carry pairwise different distances; and a node of the permanent list
\* is in the tentative list only through outdated entries, whose distance is
\* above the step's distance for that node.
C21_TentativeOverlapIsOutdated ==
  \A i \in 1..Len(Emitted) :
     LET step == Emitted[i]
     IN \A a \in 1..Len(step.tentative) :
           LET entry == step.tentative[a]
           IN /\ entry.distance >= step.distances[entry.node]
              /\ entry.node \in PermanentNodes(step) =>
                    entry.distance > step.distances[entry.node]
              /\ \A b \in 1..Len(step.tentative) :
                    (a # b /\ step.tentative[b].node = entry.node) =>
                       step.tentative[b].distance # entry.distance

\* an `extract` step whose node is still in the tentative list, twice, after
\* three pushes for it
C21_Witness ==
  \E i \in 1..Len(Emitted) :
     /\ Emitted[i].type = "extract"
     /\ Len(Emitted[i].tentative) >= 2
     /\ \A a \in 1..Len(Emitted[i].tentative) :
           Emitted[i].tentative[a].node = Emitted[i].current

====
